---- MODULE Spec2Model ----
(***************************************************************************)
(* Model of the LinkedIn company URL mass finder: the pagination policy    *)
(* (utils/pagination_handler.py), the link normalisation and extraction    *)
(* (utils/result_parser.py) and the per-name / multi-name search loops     *)
(* (utils/linkedin_search.py).                                             *)
(*                                                                         *)
(* Strings are sequences of tokens.  The URL delimiters are one token      *)
(* each; a word (a run of letters, digits and dots) is one token, as is    *)
(* the percent escape of the path separator.                               *)
(***************************************************************************)
EXTENDS Integers, Sequences, FiniteSets, TLC

VARIABLES
    \* ---- search_for_companies / search_company (linkedin_search.py) ----
    companies,            \* the input names, in order
    results_per_company,  \* run parameter
    start_page,           \* run parameter
    max_pages,            \* run parameter
    pc,                   \* "idle" | "next" | "fetching" | "returned"
    idx,                  \* how many input names the outer loop has consumed
    company,              \* the stripped name being searched
    pages,                \* the iter_pages generator of the current name
    all_results,          \* accumulation of the current name
    seen_links,           \* seen-set of the current name
    company_results,      \* the list last returned by search_company
    combined_results,     \* the aggregate
    log,                  \* fetches and sleeps of the current name, in order
    history,              \* one entry per input name the outer loop finished
    \* ---- PaginationHandler called on its own ----
    pg,
    \* ---- ResultParser._normalize_linkedin_url called on its own ----
    nz

orchVars == <<companies, results_per_company, start_page, max_pages, pc, idx,
              company, pages, all_results, seen_links, company_results,
              combined_results, log, history>>
vars == <<companies, results_per_company, start_page, max_pages, pc, idx,
          company, pages, all_results, seen_links, company_results,
          combined_results, log, history, pg, nz>>

\* ------------------------------------------------------------------------
\* Bounds
\* ------------------------------------------------------------------------
MaxArg == 5          \* largest argument tried on the pagination functions
MaxSegs == 3         \* most path segments of a raw hyperlink target
MaxCap == 3          \* largest results_per_company of a run
MaxStartPage == 1    \* largest start_page of a run
MaxPages == 3        \* largest max_pages of a run
MaxCompanies == 2    \* most input names of a run
MaxAnchors == 2      \* most hyperlinks on one fetched page
BelowOne == {-2, -1, 0}

\* ------------------------------------------------------------------------
\* utils/pagination_handler.py
\* ------------------------------------------------------------------------
\* calculate_offset without the clamp of per_page
calculate_offset_unclamped(page, per_page) ==
    LET p == IF page < 1 THEN 1 ELSE page
    IN  (p - 1) * per_page

calculate_offset(page, per_page) ==
    LET p  == IF page < 1 THEN 1 ELSE page
        pp == IF per_page < 1 THEN 1 ELSE per_page
    IN  (p - 1) * pp

\* iter_pages without the clamp of max_pages
iter_pages_unclamped(sp, mp) ==
    LET s == IF sp < 1 THEN 1 ELSE sp
    IN  [page |-> s, end_page |-> s + mp]

\* The generator of iter_pages: the clamped arguments and range(start, end).
iter_pages(sp, mp) ==
    LET s == IF sp < 1 THEN 1 ELSE sp
        m == IF mp < 1 THEN 1 ELSE mp
    IN  [page |-> s, end_page |-> s + m]

\* range(start_page, end_page) has another element
HasNextPage(it) == it.page < it.end_page

\* a generator that yields the same page again
AdvancePage_stuck(it) == it

\* the generator after it yielded it.page
AdvancePage(it) == [it EXCEPT !.page = @ + 1]

\* ------------------------------------------------------------------------
\* Strings as token sequences; the str methods the code uses
\* ------------------------------------------------------------------------
Delims == {":", "/", "?", "#", ";", "&", "="}

\* the value None of a str | None result
None == <<"<None>">>

SetMin(S) == CHOOSE x \in S : \A y \in S : x <= y
SetMax(S) == CHOOSE x \in S : \A y \in S : x >= y

\* s[from:]
Tail_(s, from) == SubSeq(s, from, Len(s))

\* str.find(t, from): the first position >= from holding t, 0 when absent
Find(s, T, from) ==
    LET I == {i \in from..Len(s) : s[i] \in T}
    IN  IF I = {} THEN 0 ELSE SetMin(I)

\* str.rfind(t): the last position holding t, 0 when absent
RFind(s, t) ==
    LET I == {i \in 1..Len(s) : s[i] = t}
    IN  IF I = {} THEN 0 ELSE SetMax(I)

\* str.split(sep): the fields between the occurrences of sep
RECURSIVE Split(_, _)
Split(s, sep) ==
    LET i == Find(s, {sep}, 1)
    IN  IF i = 0 THEN <<s>>
        ELSE <<SubSeq(s, 1, i - 1)>> \o Split(Tail_(s, i + 1), sep)

\* str.rstrip("/"): every trailing "/" removed
RECURSIVE RStripSlash(_)
RStripSlash(s) ==
    IF s # <<>> /\ s[Len(s)] = "/" THEN RStripSlash(SubSeq(s, 1, Len(s) - 1))
    ELSE s

\* str.lower() on one token
Lower(t) == IF t = "HTTPS" THEN "https" ELSE t

\* urllib.parse.unquote on one token: the only escape in the alphabet
Unquote(s) == [i \in 1..Len(s) |-> IF s[i] = "%2F" THEN "/" ELSE s[i]]

\* every character of the token is in urllib.parse.scheme_chars
IsSchemeTok(t) == t \notin Delims /\ t # "%2F" /\ t # " "

\* "linkedin.com" in <token>
MentionsLinkedIn(t) == t \in {"www.linkedin.com", "x.linkedin.com.evil.io"}

\* raw_url.startswith("http")
StartsWithHttp(s) == s # <<>> /\ s[1] \in {"https", "http"}

\* "/company/" in path
HasCompanySegment(path) ==
    \E i \in 1..(Len(path) - 2) :
        path[i] = "/" /\ path[i + 1] = "company" /\ path[i + 2] = "/"

\* urllib.parse.uses_params, restricted to the schemes of the alphabet
UsesParams == {<<>>, <<"https">>, <<"http">>}

\* ------------------------------------------------------------------------
\* urllib.parse as called by utils/result_parser.py
\* ------------------------------------------------------------------------
\* urlsplit, step by step; each step hands what it split off to the next
\* the query is split off at the first "?" (position q, 0 when none)
SplitQueryAt(scheme, netloc, url, fragment, q) ==
    [scheme |-> scheme, netloc |-> netloc,
     path |-> IF q = 0 THEN url ELSE SubSeq(url, 1, q - 1),
     query |-> IF q = 0 THEN <<>> ELSE Tail_(url, q + 1),
     fragment |-> fragment]

\* the fragment is split off at the first "#" (position h, 0 when none)
SplitFragmentAt(scheme, netloc, url, h) ==
    SplitQueryAt(scheme, netloc,
                 IF h = 0 THEN url ELSE SubSeq(url, 1, h - 1),
                 IF h = 0 THEN <<>> ELSE Tail_(url, h + 1),
                 Find(IF h = 0 THEN url ELSE SubSeq(url, 1, h - 1), {"?"}, 1))

\* _splitnetloc: where the netloc after a leading "//" ends, 0 without "//"
NetlocEnd(url) ==
    IF ~(Len(url) >= 2 /\ url[1] = "/" /\ url[2] = "/") THEN 0
    ELSE IF Find(url, {"/", "?", "#"}, 3) = 0 THEN Len(url) + 1
    ELSE Find(url, {"/", "?", "#"}, 3)

\* the netloc url[2:e] is split off
SplitNetlocAt(scheme, url, e) ==
    SplitFragmentAt(scheme,
                    IF e = 0 THEN <<>> ELSE SubSeq(url, 3, e - 1),
                    IF e = 0 THEN url ELSE Tail_(url, e),
                    Find(IF e = 0 THEN url ELSE Tail_(url, e), {"#"}, 1))

\* where the scheme ends: the first ":" when only scheme characters precede it
SchemeEnd(url, i) ==
    IF i > 1 /\ \A k \in 1..(i - 1) : IsSchemeTok(url[k]) THEN i ELSE 0

\* the scheme url[:i].lower() is split off
SplitSchemeAt(url, i) ==
    SplitNetlocAt([k \in 1..(i - 1) |-> Lower(url[k])],
                  IF i = 0 THEN url ELSE Tail_(url, i + 1),
                  NetlocEnd(IF i = 0 THEN url ELSE Tail_(url, i + 1)))

\* urlsplit: scheme, netloc, path(+params), query, fragment
urlsplit(url) == SplitSchemeAt(url, SchemeEnd(url, Find(url, {":"}, 1)))

\* _splitparams: the position of the ";" that starts the params, 0 when none
SplitParamsAt(url) ==
    IF Find(url, {"/"}, 1) # 0 THEN Find(url, {";"}, RFind(url, "/"))
    ELSE Find(url, {";"}, 1)

\* the params are split off the path at position i (0: no params)
WithParams(sp, i) ==
    [scheme |-> sp.scheme, netloc |-> sp.netloc,
     path |-> IF i = 0 THEN sp.path ELSE SubSeq(sp.path, 1, i - 1),
     params |-> IF i = 0 THEN <<>> ELSE Tail_(sp.path, i + 1),
     query |-> sp.query, fragment |-> sp.fragment]

ParamsOf(sp) ==
    WithParams(sp, IF sp.scheme \in UsesParams /\ Find(sp.path, {";"}, 1) # 0
                   THEN SplitParamsAt(sp.path) ELSE 0)

urlparse(url) == ParamsOf(urlsplit(url))

\* urlunsplit; uses_netloc holds every scheme of UsesParams
WithNetloc(scheme, netloc, url) ==
    IF netloc # <<>>
       \/ (scheme # <<>> /\ scheme \in UsesParams
           /\ ~(Len(url) >= 2 /\ url[1] = "/" /\ url[2] = "/"))
    THEN <<"/", "/">> \o netloc
         \o (IF url # <<>> /\ url[1] # "/" THEN <<"/">> ELSE <<>>) \o url
    ELSE url

urlunsplit(scheme, netloc, url, query, fragment) ==
    (IF scheme # <<>> THEN scheme \o <<":">> ELSE <<>>)
    \o WithNetloc(scheme, netloc, url)
    \o (IF query # <<>> THEN <<"?">> \o query ELSE <<>>)
    \o (IF fragment # <<>> THEN <<"#">> \o fragment ELSE <<>>)

urlunparse(p) ==
    urlunsplit(p.scheme, p.netloc,
               IF p.params # <<>> THEN p.path \o <<";">> \o p.params ELSE p.path,
               p.query, p.fragment)

\* parse_qsl keeps a field: it has a "=", a value after it, and this name
FieldNamed(f, key, e) ==
    e # 0 /\ e < Len(f) /\ Unquote(SubSeq(f, 1, e - 1)) = key

\* the unquoted values of the fields
ValuesOf(fs) ==
    [i \in 1..Len(fs) |-> Unquote(Tail_(fs[i], Find(fs[i], {"="}, 1) + 1))]

\* parse_qs(query).get(key): the values of the fields named key, blank
\* values and fields without "=" dropped, names and values unquoted
QueryValues(query, key) ==
    LET Keep(f) == FieldNamed(f, key, Find(f, {"="}, 1))
    IN  ValuesOf(SelectSeq(IF query = <<>> THEN <<>> ELSE Split(query, "&"), Keep))

\* ------------------------------------------------------------------------
\* utils/result_parser.py
\* ------------------------------------------------------------------------
\* "linkedin.com" in parsed.netloc
NetlocMentionsLinkedIn(parsed) ==
    \E k \in 1..Len(parsed.netloc) : MentionsLinkedIn(parsed.netloc[k])

\* query.get("q") or query.get("url") or []
Candidates(query) ==
    IF QueryValues(query, <<"q">>) # <<>> THEN QueryValues(query, <<"q">>)
    ELSE QueryValues(query, <<"url">>)

\* raw_url after the redirect unwrapping (lines 27-33)
UnwrapWith(raw_url, parsed, candidate_list) ==
    IF ~NetlocMentionsLinkedIn(parsed) /\ ~StartsWithHttp(raw_url)
       /\ candidate_list # <<>>
    THEN candidate_list[1] ELSE raw_url

Unwrapped(raw_url) ==
    UnwrapWith(raw_url, urlparse(raw_url), Candidates(urlparse(raw_url).query))

\* the trailing-slash step removing one separator only
StripTrailing_one(normalized) ==
    IF normalized # <<>> /\ normalized[Len(normalized)] = "/"
    THEN SubSeq(normalized, 1, Len(normalized) - 1) ELSE normalized

\* the trailing-slash step (lines 47-48)
StripTrailing(normalized) ==
    IF normalized # <<>> /\ normalized[Len(normalized)] = "/"
    THEN RStripSlash(normalized) ELSE normalized

\* the checks and the cleaning of the parsed candidate (lines 35-50)
Canonical(parsed) ==
    IF ~NetlocMentionsLinkedIn(parsed) THEN None
    ELSE IF ~HasCompanySegment(parsed.path) THEN None
    ELSE StripTrailing(urlunparse([parsed EXCEPT !.query = <<>>, !.fragment = <<>>]))

_normalize_linkedin_url(raw_url) ==
    IF raw_url = <<>> THEN None ELSE Canonical(urlparse(Unwrapped(raw_url)))

\* ------------------------------------------------------------------------
\* Inputs of the normalisation: raw hyperlink targets
\* ------------------------------------------------------------------------
Schemes  == {<<>>, <<"https", ":">>, <<"HTTPS", ":">>, <<"acme", ":">>}
Auths    == {<<>>, <<"/", "/", "www.linkedin.com">>, <<"/", "/", "example.com">>,
             <<"/", "/", "x.linkedin.com.evil.io">>}
Segments == {<<"/">>, <<"/", "company">>, <<"/", "acme">>, <<"/", "acme", ";", "x">>}
Suffixes == {<<>>, <<"?", "x", "=", "acme">>, <<"#", "x">>, <<"?", "x", "#", "x">>}

RECURSIVE Paths(_)
Paths(n) ==
    IF n = 0 THEN {<<>>}
    ELSE Paths(n - 1) \cup {p \o s : p \in Paths(n - 1), s \in Segments}

DirectUrls ==
    {sc \o au \o pa \o su : sc \in Schemes, au \in Auths,
                            pa \in Paths(MaxSegs), su \in Suffixes}

\* values carried by a redirect wrapper
InnerUrls ==
    { <<>>,
      <<"https", ":", "/", "/", "www.linkedin.com", "/", "company", "/", "acme", "/">>,
      <<"https", ":", "%2F", "%2F", "www.linkedin.com", "%2F", "company", "%2F", "acme">>,
      <<"/", "/", "www.linkedin.com", "/", "company", "/", "acme">>,
      <<"https", ":", "/", "/", "example.com", "/", "company", "/", "acme">>,
      <<"https", ":", "/", "/", "www.linkedin.com", "/", "acme">>,
      <<"https", ":", "/", "/", "www.linkedin.com", "/", "company", "/">>,
      <<"https", ":", "/", "/", "www.linkedin.com", "/", "company", "/", "acme", "?", "x", "=", "acme">>,
      <<"https", ":", "/", "/", "www.linkedin.com", "/", "company", "/", "acme", "#", "x">> }
WrapPrefixes ==
    { <<"/", "url", "?">>,
      <<"/", "/", "example.com", "/", "url", "?">>,
      <<"https", ":", "/", "/", "example.com", "/", "url", "?">>,
      <<"HTTPS", ":", "/", "/", "example.com", "/", "url", "?">> }
WrapFields == {<<k, "=">> \o v : k \in {"q", "url", "x"}, v \in InnerUrls}
WrappedUrls ==
    {w \o f : w \in WrapPrefixes, f \in WrapFields}
    \cup {w \o f \o <<"&">> \o g : w \in WrapPrefixes, f \in WrapFields, g \in WrapFields}

RawUrls == DirectUrls \cup WrappedUrls

\* ------------------------------------------------------------------------
\* The parts of the state a specification does not use
\* ------------------------------------------------------------------------
OrchIdle ==
    /\ companies = <<>>
    /\ results_per_company = 1
    /\ start_page = 1
    /\ max_pages = 1
    /\ pc = "idle"
    /\ idx = 0
    /\ company = <<>>
    /\ pages = iter_pages(1, 1)
    /\ all_results = <<>>
    /\ seen_links = {}
    /\ company_results = <<>>
    /\ combined_results = <<>>
    /\ log = <<>>
    /\ history = <<>>

PgIdle == [fn |-> "none", pc |-> "done", a |-> 1, b |-> 1, ret |-> 0,
           it |-> iter_pages(1, 1), yielded |-> <<>>]
NzIdle == [pc |-> "done", raw |-> <<>>, target |-> <<>>, out |-> None,
           again |-> None]

\* ------------------------------------------------------------------------
\* PaginationHandler called on its own
\* ------------------------------------------------------------------------
Args == BelowOne \cup (1..MaxArg)

PgInit ==
    /\ OrchIdle
    /\ nz = NzIdle
    /\ \E fn \in {"calculate_offset", "iter_pages"}, a \in Args, b \in Args :
          pg = [fn |-> fn, pc |-> "call", a |-> a, b |-> b, ret |-> 0,
                it |-> iter_pages(a, b), yielded |-> <<>>]

\* calculate_offset(page = a, per_page = b) returns
CallCalculateOffset ==
    /\ pg.fn = "calculate_offset" /\ pg.pc = "call"
    /\ pg' = [pg EXCEPT !.ret = calculate_offset(pg.a, pg.b), !.pc = "done"]
    /\ UNCHANGED <<orchVars, nz>>

\* next() on iter_pages(start_page = a, max_pages = b) yields a page
IterPagesYield ==
    /\ pg.fn = "iter_pages" /\ pg.pc = "call"
    /\ HasNextPage(pg.it)
    /\ pg' = [pg EXCEPT !.yielded = Append(@, pg.it.page), !.it = AdvancePage(@)]
    /\ UNCHANGED <<orchVars, nz>>

\* next() on the generator raises StopIteration
IterPagesStop ==
    /\ pg.fn = "iter_pages" /\ pg.pc = "call"
    /\ ~HasNextPage(pg.it)
    /\ pg' = [pg EXCEPT !.pc = "done"]
    /\ UNCHANGED <<orchVars, nz>>

PgNext == CallCalculateOffset \/ IterPagesYield \/ IterPagesStop
SpecPagination == PgInit /\ [][PgNext]_vars

\* ------------------------------------------------------------------------
\* _normalize_linkedin_url called on its own, then on its own output
\* ------------------------------------------------------------------------
NzInit ==
    /\ OrchIdle
    /\ pg = PgIdle
    /\ \E r \in RawUrls :
          nz = [pc |-> "raw", raw |-> r, target |-> r, out |-> None, again |-> None]

\* the call on a raw target; target is the local raw_url when the checks of
\* lines 35-40 are made
NormalizeRaw ==
    /\ nz.pc = "raw"
    /\ nz' = [nz EXCEPT !.target = IF nz.raw = <<>> THEN nz.raw ELSE Unwrapped(nz.raw),
                        !.out = _normalize_linkedin_url(nz.raw), !.pc = "out"]
    /\ UNCHANGED <<orchVars, pg>>

NormalizeOutput ==
    /\ nz.pc = "out" /\ nz.out # None
    /\ nz' = [nz EXCEPT !.again = _normalize_linkedin_url(nz.out), !.pc = "again"]
    /\ UNCHANGED <<orchVars, pg>>

NzNext == NormalizeRaw \/ NormalizeOutput
SpecNormalize == NzInit /\ [][NzNext]_vars

\* ------------------------------------------------------------------------
\* Inputs of a run: names, parameters, fetched pages
\* ------------------------------------------------------------------------
Names == {<<" ">>, <<" ", "Acme", " ">>, <<"Beta">>}

RECURSIVE SeqsUpTo(_, _)
SeqsUpTo(S, n) ==
    IF n = 0 THEN {<<>>}
    ELSE SeqsUpTo(S, n - 1)
         \cup {Append(q, x) : q \in SeqsUpTo(S, n - 1), x \in S}

AcmeUrl  == <<"https", ":", "/", "/", "www.linkedin.com", "/", "company", "/", "acme">>
BetaUrl  == <<"https", ":", "/", "/", "www.linkedin.com", "/", "company", "/", "beta">>
GammaUrl == <<"https", ":", "/", "/", "www.linkedin.com", "/", "company", "/", "gamma">>

\* the <a> elements a page may hold: href and visible text
AcmeAnchor  == [href |-> AcmeUrl, text |-> <<"Acme", " ", "Corp">>]
\* the same profile behind a redirect wrapper, with blank text (Scenario A)
WrappedAcmeAnchor ==
    [href |-> <<"/", "url", "?", "q", "=">> \o AcmeUrl \o <<"/", "&", "x", "=", "acme">>,
     text |-> <<" ">>]
BetaAnchor  == [href |-> BetaUrl, text |-> <<"Beta">>]
GammaAnchor == [href |-> GammaUrl, text |-> <<"Gamma">>]
OtherAnchor ==
    [href |-> <<"https", ":", "/", "/", "example.com", "/", "company", "/", "acme">>,
     text |-> <<"Other">>]
Anchors == {AcmeAnchor, WrappedAcmeAnchor, BetaAnchor}

\* the response bodies a fetch may return, as their <a> elements in document
\* order.  A run over one name and at most two pages draws from every page
\* of up to MaxAnchors anchors and a page of three distinct profiles and a
\* foreign link; a longer run over at most two names draws from the pages of
\* at most one anchor, a run over more names from the empty page and a page
\* of one profile.
FullPage == <<AcmeAnchor, OtherAnchor, BetaAnchor, GammaAnchor>>
PageBodies == SeqsUpTo(Anchors, MaxAnchors) \cup {FullPage}
FewerBodies == SeqsUpTo({WrappedAcmeAnchor, BetaAnchor}, 1)
FewestBodies == {<<>>, <<BetaAnchor>>}
BodiesOf(names, mp) ==
    IF Len(names) <= 1 /\ mp <= 2 THEN PageBodies
    ELSE IF Len(names) <= 2 THEN FewerBodies
    ELSE FewestBodies

\* ------------------------------------------------------------------------
\* str.strip, list slicing
\* ------------------------------------------------------------------------
RECURSIVE LStrip(_)
LStrip(s) == IF s # <<>> /\ s[1] = " " THEN LStrip(Tail(s)) ELSE s

RECURSIVE RStrip(_)
RStrip(s) ==
    IF s # <<>> /\ s[Len(s)] = " " THEN RStrip(SubSeq(s, 1, Len(s) - 1)) ELSE s

\* the name taken as it is, blanks included
Strip_noop(s) == s

\* str.strip()
Strip(s) == RStrip(LStrip(s))

\* lst[:n], n of either sign
SliceTo(lst, n) ==
    IF n >= 0 THEN SubSeq(lst, 1, IF n < Len(lst) THEN n ELSE Len(lst))
    ELSE SubSeq(lst, 1, Len(lst) + n)

\* ------------------------------------------------------------------------
\* ResultParser.extract_linkedin_results
\* ------------------------------------------------------------------------
\* _normalize_linkedin_url on the hrefs the pages hold
NormalizedHref ==
    [h \in {a.href : a \in Anchors \cup {GammaAnchor, OtherAnchor}}
        |-> _normalize_linkedin_url(h)]

RECURSIVE extract_linkedin_results(_, _)
extract_linkedin_results(html, search_query) ==
    IF html = <<>> THEN <<>>
    ELSE LET anchor     == Head(html)
             normalized == NormalizedHref[anchor.href]
             title_text == IF Strip(anchor.text) # <<>> THEN Strip(anchor.text)
                           ELSE search_query
             rest       == extract_linkedin_results(Tail(html), search_query)
         IN  IF anchor.href = <<>> \/ normalized = None \/ normalized = <<>>
             THEN rest
             ELSE <<[title |-> title_text, link |-> normalized,
                     searchQuery |-> search_query]>> \o rest

\* ------------------------------------------------------------------------
\* LinkedInCompanySearcher
\* ------------------------------------------------------------------------
\* the request _build_search_url builds: the "first" and "count" parameters
_build_search_url(name, page, results_per_page) ==
    [type |-> "fetch", company |-> name, page |-> page,
     first |-> calculate_offset(page, results_per_page) + 1,
     count |-> results_per_page]

\* the de-duplication loop forgetting seen_links.add(link)
RECURSIVE NewItems_noadd(_, _)
NewItems_noadd(page_results, seen) ==
    IF page_results = <<>> THEN <<>>
    ELSE LET item == Head(page_results)
         IN  IF item.link = <<>> \/ item.link \in seen
             THEN NewItems_noadd(Tail(page_results), seen)
             ELSE <<item>> \o NewItems_noadd(Tail(page_results), seen)

\* the de-duplication loop keeping the last record of a link on a page
RECURSIVE NewItems_keeplast(_, _)
NewItems_keeplast(page_results, seen) ==
    IF page_results = <<>> THEN <<>>
    ELSE LET item == Head(page_results)
         IN  IF item.link = <<>> \/ item.link \in seen
                \/ \E k \in 2..Len(page_results) : page_results[k].link = item.link
             THEN NewItems_keeplast(Tail(page_results), seen)
             ELSE <<item>> \o NewItems_keeplast(Tail(page_results),
                                                seen \cup {item.link})

\* the de-duplication loop of search_company (lines 129-137): the new items
RECURSIVE NewItems(_, _)
NewItems(page_results, seen) ==
    IF page_results = <<>> THEN <<>>
    ELSE LET item == Head(page_results)
         IN  IF item.link = <<>> \/ item.link \in seen
             THEN NewItems(Tail(page_results), seen)
             ELSE <<item>> \o NewItems(Tail(page_results), seen \cup {item.link})

Links(items) == {items[i].link : i \in 1..Len(items)}

\* what a processed page held: the records extracted from it (line 123) and
\* the counts the debug line of lines 139-145 reports
PageEntry(page_results, new_items) ==
    [type |-> "page", found |-> Len(page_results), new |-> Len(new_items),
     results |-> page_results]

Init ==
    /\ companies \in SeqsUpTo(Names, MaxCompanies)
    /\ results_per_company \in {-1, 0} \cup (1..MaxCap)
    /\ start_page \in {0} \cup (1..MaxStartPage)
    /\ max_pages \in {0} \cup (1..MaxPages)
    /\ pc = "next"
    /\ idx = 0
    /\ company = <<>>
    /\ pages = iter_pages(1, 1)
    /\ all_results = <<>>
    /\ seen_links = {}
    /\ company_results = <<>>
    /\ combined_results = <<>>
    /\ log = <<>>
    /\ history = <<>>
    /\ pg = PgIdle
    /\ nz = NzIdle

\* the outer loop takes a name that is empty after strip() and continues
SkipEmptyName ==
    /\ pc = "next" /\ idx < Len(companies)
    /\ Strip(companies[idx + 1]) = <<>>
    /\ idx' = idx + 1
    /\ history' = Append(history, [name |-> companies[idx + 1], query |-> <<>>,
                                   status |-> "skipped", stop |-> "none",
                                   acc |-> <<>>, result |-> <<>>, log |-> <<>>])
    /\ UNCHANGED <<companies, results_per_company, start_page, max_pages, pc,
                   company, pages, all_results, seen_links, company_results,
                   combined_results, log, pg, nz>>

\* search_company keeping the seen-set of the names before
StartSearch_shared ==
    /\ pc = "next" /\ idx < Len(companies)
    /\ Strip(companies[idx + 1]) # <<>>
    /\ LET c  == Strip(companies[idx + 1])
           it == iter_pages(start_page, max_pages)
       IN  /\ company' = c
           /\ pages' = it
           /\ log' = <<_build_search_url(c, it.page, results_per_company)>>
    /\ all_results' = <<>>
    /\ pc' = "fetching"
    /\ UNCHANGED <<companies, results_per_company, start_page, max_pages, idx,
                   seen_links, company_results, combined_results, history, pg, nz>>

\* the outer loop takes a name and search_company issues its first request
StartSearch ==
    /\ pc = "next" /\ idx < Len(companies)
    /\ Strip(companies[idx + 1]) # <<>>
    /\ LET c  == Strip(companies[idx + 1])
           it == iter_pages(start_page, max_pages)
       IN  /\ company' = c
           /\ pages' = it
           /\ log' = <<_build_search_url(c, it.page, results_per_company)>>
    /\ all_results' = <<>>
    /\ seen_links' = {}
    /\ pc' = "fetching"
    /\ UNCHANGED <<companies, results_per_company, start_page, max_pages, idx,
                   company_results, combined_results, history, pg, nz>>

\* the requests and delays of a log, without what the pages held
IsTraffic(e) == e.type # "page"
Traffic(lg) == SelectSeq(lg, IsTraffic)

\* the caller putting a name's results in front of the aggregate
Finish_prepend(status, why, acc, lg) ==
    /\ company_results' = SliceTo(acc, results_per_company)
    /\ combined_results' = SliceTo(acc, results_per_company) \o combined_results
    /\ history' = Append(history, [name |-> companies[idx + 1], query |-> company,
                                   status |-> status, stop |-> why, acc |-> acc,
                                   result |-> SliceTo(acc, results_per_company),
                                   log |-> Traffic(lg)])
    /\ all_results' = acc
    /\ log' = lg
    /\ idx' = idx + 1
    /\ pc' = "next"

\* search_company leaves its loop: slice, return, and the caller extends
Finish(status, why, acc, lg) ==
    /\ company_results' = SliceTo(acc, results_per_company)
    /\ combined_results' = combined_results \o SliceTo(acc, results_per_company)
    /\ history' = Append(history, [name |-> companies[idx + 1], query |-> company,
                                   status |-> status, stop |-> why, acc |-> acc,
                                   result |-> SliceTo(acc, results_per_company),
                                   log |-> Traffic(lg)])
    /\ all_results' = acc
    /\ log' = lg
    /\ idx' = idx + 1
    /\ pc' = "next"

\* the stop test without the cap break
StopsAfter_nonewonly(acc, new_items) ==
    new_items = <<>>

\* the stop test without the "no new results" break
StopsAfter_caponly(acc, new_items) ==
    Len(acc) >= results_per_company

\* the loop stops after this page: cap reached, or nothing new (lines 149-163)
StopsAfter(acc, new_items) ==
    Len(acc) >= results_per_company \/ new_items = <<>>

\* which way the loop is left after this page: the cap test comes first, the
\* "no new results" test second; otherwise the page sequence decides
StopReason(acc, new_items) ==
    IF Len(acc) >= results_per_company THEN "cap"
    ELSE IF new_items = <<>> THEN "no_new"
    ELSE "exhausted"

\* the fetch returns a body; the loop body runs and the loop goes on to the
\* next page, whose request is issued
PageFetchedContinue ==
    /\ pc = "fetching"
    /\ \E html \in BodiesOf(companies, max_pages) :
         LET page_results == extract_linkedin_results(html, company)
             new_items    == NewItems(page_results, seen_links)
             acc          == all_results \o new_items
             it           == AdvancePage(pages)
         IN  /\ ~StopsAfter(acc, new_items)
             /\ HasNextPage(it)
             /\ all_results' = acc
             /\ seen_links' = seen_links \cup Links(new_items)
             /\ pages' = it
             /\ log' = log \o <<PageEntry(page_results, new_items),
                                [type |-> "sleep"],
                                _build_search_url(company, it.page, results_per_company)>>
    /\ UNCHANGED <<companies, results_per_company, start_page, max_pages, pc, idx,
                   company, company_results, combined_results, history, pg, nz>>

\* the fetch returns a body; the loop body runs and the loop ends, by a break
\* or because the page sequence is exhausted
PageFetchedFinish ==
    /\ pc = "fetching"
    /\ \E html \in BodiesOf(companies, max_pages) :
         LET page_results == extract_linkedin_results(html, company)
             new_items    == NewItems(page_results, seen_links)
             acc          == all_results \o new_items
             it           == AdvancePage(pages)
         IN  /\ StopsAfter(acc, new_items) \/ ~HasNextPage(it)
             /\ seen_links' = seen_links \cup Links(new_items)
             /\ pages' = IF StopsAfter(acc, new_items) THEN pages ELSE it
             /\ Finish("ok", StopReason(acc, new_items), acc,
                       Append(log, PageEntry(page_results, new_items))
                       \o (IF StopsAfter(acc, new_items) THEN <<>>
                           ELSE <<[type |-> "sleep"]>>))
    /\ UNCHANGED <<companies, results_per_company, start_page, max_pages, company, pg, nz>>

\* a transport failure that ends the whole run
FetchFails_abort ==
    /\ pc = "fetching"
    /\ pc' = "returned"
    /\ UNCHANGED <<companies, results_per_company, start_page, max_pages, idx,
                   company, pages, all_results, seen_links, company_results,
                   combined_results, log, history, pg, nz>>

\* _fetch_page raises requests.RequestException: break (lines 114-121)
FetchFails ==
    /\ pc = "fetching"
    /\ Finish("transport", "failed", all_results, log)
    /\ UNCHANGED <<companies, results_per_company, start_page, max_pages, company,
                   pages, seen_links, pg, nz>>

\* an unexpected exception that ends the whole run
UnexpectedError_abort ==
    /\ pc = "fetching"
    /\ pc' = "returned"
    /\ UNCHANGED <<companies, results_per_company, start_page, max_pages, idx,
                   company, pages, all_results, seen_links, company_results,
                   combined_results, log, history, pg, nz>>

\* any other exception leaves search_company and is caught by the outer loop
\* (lines 204-208)
UnexpectedError ==
    /\ pc = "fetching"
    /\ history' = Append(history, [name |-> companies[idx + 1], query |-> company,
                                   status |-> "unexpected", stop |-> "raised",
                                   acc |-> all_results,
                                   result |-> <<>>, log |-> Traffic(log)])
    /\ idx' = idx + 1
    /\ pc' = "next"
    /\ UNCHANGED <<companies, results_per_company, start_page, max_pages, company,
                   pages, all_results, seen_links, company_results,
                   combined_results, log, pg, nz>>

\* the outer loop is exhausted: return combined_results
ReturnCombined ==
    /\ pc = "next" /\ idx = Len(companies)
    /\ pc' = "returned"
    /\ UNCHANGED <<companies, results_per_company, start_page, max_pages, idx,
                   company, pages, all_results, seen_links, company_results,
                   combined_results, log, history, pg, nz>>

Next ==
    \/ SkipEmptyName
    \/ StartSearch
    \/ PageFetchedContinue
    \/ PageFetchedFinish
    \/ FetchFails
    \/ UnexpectedError
    \/ ReturnCombined

Spec == Init /\ [][Next]_vars

\* The whole run, from the caller: search_for_companies is called with the
\* names and the run parameters.  The runs are those over several names or
\* over a sequence of three pages or more.
LiveInit ==
    /\ OrchIdle
    /\ pg = PgIdle
    /\ nz = NzIdle

CallSearchForCompanies ==
    /\ pc = "idle"
    /\ companies' \in SeqsUpTo(Names, MaxCompanies)
    /\ results_per_company' \in {-1, 0} \cup (1..MaxCap)
    /\ start_page' \in {0} \cup (1..MaxStartPage)
    /\ max_pages' \in {0} \cup (1..MaxPages)
    /\ Len(companies') >= 2 \/ max_pages' >= 3
    /\ pc' = "next"
    /\ UNCHANGED <<idx, company, pages, all_results, seen_links, company_results,
                   combined_results, log, history, pg, nz>>

LiveNext == CallSearchForCompanies \/ Next

\* The program is sequential and every fetch returns or raises (the request
\* has a timeout), so a step that can be taken is taken.
SpecLive == LiveInit /\ [][LiveNext]_vars /\ WF_vars(LiveNext)

\* ========================================================================
\* Properties
\* ========================================================================
FetchCount(lg) == Cardinality({k \in 1..Len(lg) : lg[k].type = "fetch"})

\* the pages requested in a log, in order
RequestedPages(lg) ==
    LET IsFetch(e) == e.type = "fetch"
        f == SelectSeq(lg, IsFetch)
    IN  [k \in 1..Len(f) |-> f[k].page]

RECURSIVE ConcatResults(_)
ConcatResults(h) ==
    IF h = <<>> THEN <<>> ELSE Head(h).result \o ConcatResults(Tail(h))

NoRepeatedLink(items) ==
    \A i, j \in 1..Len(items) : i # j => items[i].link # items[j].link

\* q is n without its leading and trailing blanks
IsTrimOf(q, n) ==
    \E i \in 1..(Len(n) + 1), j \in 0..Len(n) :
        /\ q = SubSeq(n, i, j)
        /\ \A k \in 1..(i - 1) : n[k] = " "
        /\ \A k \in (j + 1)..Len(n) : n[k] = " "
        /\ q # <<>> => (q[1] # " " /\ q[Len(q)] # " ")

\* C1: whatever the parameters, pages and failures, the list search_company
\* returns for a name has at most results_per_company records.  No list has
\* fewer than zero records, so for a negative results_per_company the bound
\* is taken as the clamped cap 1, the most any reading of the claim allows.
C1_CapInvariant ==
    \A i \in 1..Len(history) :
        history[i].status \in {"ok", "transport"}
            => Len(history[i].result)
                   <= (IF results_per_company < 0 THEN 1 ELSE results_per_company)

\* C2: the accumulation never holds two records with the same link, every
\* accumulated link is in the seen-set, and so the links of a returned list
\* are pairwise distinct.
C2_DedupInvariant ==
    /\ NoRepeatedLink(all_results)
    /\ Links(all_results) \subseteq seen_links
    /\ \A i \in 1..Len(history) : NoRepeatedLink(history[i].result)

\* a page repeated a link (it held more results than it gave new ones) and
\* the accumulation holds several records
C2_Witness ==
    /\ Len(all_results) >= 2
    /\ \E k \in 1..Len(log) :
          log[k].type = "page" /\ log[k].new >= 1 /\ log[k].found > log[k].new

\* C3: a transport failure on page p ends the name at once: the failed
\* request is the last thing the name did, no page was requested twice, the
\* result is the sliced accumulation of the pages before p (empty when p is
\* the first page), and the names after it are still searched from their
\* first page.
C3_TransportFailureStopsName ==
    /\ \A i \in 1..Len(history) :
          history[i].status = "transport" =>
              LET h  == history[i]
                  rp == RequestedPages(h.log)
              IN  /\ h.log[Len(h.log)].type = "fetch"
                  /\ \A k \in 1..(Len(rp) - 1) : rp[k + 1] = rp[k] + 1
                  /\ h.result = SliceTo(h.acc, results_per_company)
                  /\ FetchCount(h.log) = 1 => h.result = <<>>
                  /\ (i < Len(history) /\ history[i + 1].status # "skipped") =>
                        /\ history[i + 1].log # <<>>
                        /\ history[i + 1].log[1].type = "fetch"
                        /\ history[i + 1].log[1].page
                               = (IF start_page < 1 THEN 1 ELSE start_page)
    /\ pc = "returned" =>
          /\ Len(history) = Len(companies)
          /\ \A i \in 1..Len(history) :
                history[i].status = "skipped" <=>
                    \A k \in 1..Len(companies[i]) : companies[i][k] = " "

\* a name failed on its second page and kept the first page's records, and
\* the next name was searched and found records
C3_Witness ==
    \E i \in 1..(Len(history) - 1) :
        /\ history[i].status = "transport"
        /\ FetchCount(history[i].log) = 2
        /\ history[i].result # <<>>
        /\ history[i + 1].status = "ok"
        /\ history[i + 1].result # <<>>

\* C4: a further page of a name is requested only after a page that gave new
\* records; and two pages that both hold the same single link, with a cap
\* above 1, end the name after two requests with one record.
ScenarioD ==
    /\ results_per_company > 1
    /\ Len(log) >= 5
    /\ log[2].type = "page" /\ log[2].found = 1 /\ log[2].new = 1
    /\ log[5].type = "page" /\ log[5].found = 1 /\ log[5].new = 0
C4_NoNewRecordsStops ==
    /\ [][(pc = "fetching" /\ pc' = "fetching")
             => Len(all_results') > Len(all_results)]_vars
    /\ [](ScenarioD => /\ Len(log) = 5
                       /\ FetchCount(log) = 2
                       /\ pc # "fetching"
                       /\ Len(all_results) = 1
                       /\ Len(company_results) = 1)

\* Scenario D happened while the page sequence still had a page left
C4_Witness ==
    /\ ScenarioD
    /\ HasNextPage(AdvancePage(pages))

\* C5: an unexpected failure in one name does not end the run: at the return
\* every input name has been taken, and the aggregate is the results of all
\* the names that did not fail, in input order.
C5_PartialFailureIsolation ==
    /\ LET Survived(h) == h.status # "unexpected"
       IN  combined_results = ConcatResults(SelectSeq(history, Survived))
    /\ pc = "returned" => Len(history) = Len(companies)
    /\ \A i \in 1..Len(history) :
          history[i].status = "unexpected" => history[i].result = <<>>

\* the run returned; a name failed unexpectedly after it had accumulated
\* records, and a later name contributed its records
C5_Witness ==
    /\ pc = "returned"
    /\ \E i \in 1..(Len(history) - 1) :
          /\ history[i].status = "unexpected"
          /\ history[i].acc # <<>>
          /\ history[i + 1].status = "ok"
          /\ history[i + 1].result # <<>>
          /\ combined_results = history[i + 1].result

\* C6: the aggregate is the concatenation, in input order, of the lists
\* returned for the names, and every record carries the trimmed name that
\* produced it as searchQuery.
C6_AggregateIsOrderedConcatenation ==
    /\ combined_results = ConcatResults(history)
    /\ \A i \in 1..Len(history) :
          /\ history[i].name = companies[i]
          /\ \A k \in 1..Len(history[i].result) :
                IsTrimOf(history[i].result[k].searchQuery, history[i].name)

\* two names, the first one padded with blanks, both contributed records
C6_Witness ==
    /\ Len(history) = 2
    /\ history[1].name # history[1].query
    /\ history[1].result # <<>>
    /\ history[2].result # <<>>
    /\ history[1].query # history[2].query

\* C7: calculate_offset returns (page-1)*per_page for valid arguments, treats
\* an argument below 1 as 1, and never returns a negative offset.
C7_OffsetClamped ==
    (pg.fn = "calculate_offset" /\ pg.pc = "done") =>
        /\ (pg.a >= 1 /\ pg.b >= 1) => pg.ret = (pg.a - 1) * pg.b
        /\ pg.a < 1 => pg.ret = 0
        /\ (pg.a >= 1 /\ pg.b < 1) => pg.ret = pg.a - 1
        /\ pg.ret >= 0

\* the call returned for a valid page and a per_page below 1
C7_Witness ==
    /\ pg.fn = "calculate_offset" /\ pg.pc = "done"
    /\ pg.a >= 3 /\ pg.b < 0

\* C8: iter_pages yields max(max_pages,1) consecutive integers from
\* max(start_page,1), then ends.
C8_IterPagesSequence ==
    pg.fn = "iter_pages" =>
        LET first == IF pg.a < 1 THEN 1 ELSE pg.a
            count == IF pg.b < 1 THEN 1 ELSE pg.b
        IN  /\ Len(pg.yielded) <= count
            /\ \A k \in 1..Len(pg.yielded) : pg.yielded[k] = first + k - 1
            /\ pg.pc = "done" => Len(pg.yielded) = count

\* the generator ended after a clamped start and several pages
C8_Witness ==
    /\ pg.fn = "iter_pages" /\ pg.pc = "done"
    /\ pg.a < 1 /\ pg.b >= 3
    /\ Len(pg.yielded) = pg.b

\* C9: normalising an accepted output again returns it unchanged.
C9_Idempotent ==
    nz.pc = "again" => nz.again = nz.out

\* C10: an accepted link holds no "?" and no "#" and does not end with "/".
C10_NoQueryFragmentTrailingSlash ==
    (nz.pc # "raw" /\ nz.out # None) =>
        /\ \A k \in 1..Len(nz.out) : nz.out[k] \notin {"?", "#"}
        /\ nz.out # <<>>
        /\ nz.out[Len(nz.out)] # "/"

\* an accepted target that had a query, a fragment and a trailing separator
C10_Witness ==
    /\ nz.pc = "out" /\ nz.out # None
    /\ \E q \in 2..Len(nz.raw) :
          /\ nz.raw[q] = "?"
          /\ nz.raw[q - 1] = "/"
          /\ \E f \in (q + 1)..Len(nz.raw) : nz.raw[f] = "#"

\* C11: a raw target is accepted exactly when, after the redirect unwrapping,
\* its host mentions linkedin.com and its path contains /company/; the
\* unwrapping is applied only to a raw target whose host does not mention
\* linkedin.com and which is not an absolute URL (it has no scheme); and the
\* three scenarios come out as stated.
IsAbsoluteUrl(url) == urlsplit(url).scheme # <<>>
ScenarioA == <<"/", "url", "?", "q", "=">> \o AcmeUrl \o <<"/", "&", "x", "=">>
ScenarioB == <<"https", ":", "/", "/", "example.com", "/", "company", "/", "acme">>
ScenarioC == <<"https", ":", "/", "/", "www.linkedin.com", "/", "acme", "/", "acme">>
C11_AcceptanceRule ==
    nz.pc \in {"out", "again"} =>
        /\ nz.out # None <=>
               /\ NetlocMentionsLinkedIn(urlparse(nz.target))
               /\ HasCompanySegment(urlparse(nz.target).path)
        /\ nz.target # nz.raw =>
               /\ ~NetlocMentionsLinkedIn(urlparse(nz.raw))
               /\ ~IsAbsoluteUrl(nz.raw)
        /\ nz.raw = ScenarioA => nz.out = AcmeUrl
        /\ nz.raw = ScenarioB => nz.out = None
        /\ nz.raw = ScenarioC => nz.out = None

\* C12: the delay happens only between two consecutive requests of one name:
\* the traffic of a finished name starts with a request, and every delay in
\* it comes right after a request's page and right before the next request,
\* so no name ends on a delay.
C12_DelayOnlyBetweenPages ==
    \A i \in 1..Len(history) :
        LET lg == history[i].log
        IN  /\ lg # <<>> => lg[1].type = "fetch"
            /\ \A k \in 1..Len(lg) :
                   lg[k].type = "sleep" =>
                       /\ k > 1 /\ lg[k - 1].type = "fetch"
                       /\ k < Len(lg) /\ lg[k + 1].type = "fetch"

\* C13: once the accumulation has reached results_per_company after a page,
\* the name issues no further request: a next request only follows a page
\* that left the accumulation below the cap and added a record to it; and
\* the cap test is made before the "no new records" test, so a name is
\* reported stopped by the cap exactly when its accumulation reached it.
C13_CapStopsPaging ==
    /\ [][(pc = "fetching" /\ pc' = "fetching")
             => /\ Len(all_results') < results_per_company
                /\ all_results' # all_results
                /\ FetchCount(log') = FetchCount(log) + 1]_vars
    /\ [](\A i \in 1..Len(history) :
             history[i].status = "ok" =>
                 /\ history[i].stop = "cap"
                        <=> Len(history[i].acc) >= results_per_company
                 /\ history[i].stop = "exhausted"
                        => FetchCount(history[i].log)
                               = (IF max_pages < 1 THEN 1 ELSE max_pages))

\* a name reached the cap on its second page and stopped there although the
\* page sequence had a third page
C13_Witness ==
    \E i \in 1..Len(history) :
        /\ history[i].stop = "cap"
        /\ Len(history[i].acc) >= 2
        /\ FetchCount(history[i].log) = 2
        /\ max_pages >= 3

\* C14: for results_per_company >= 1 the list returned for a name is the
\* first min(cap, n) of the n first occurrences of distinct links over the
\* pages the name processed, in page order and document order within a page;
\* the record kept for a link is the one of its first occurrence, title
\* included.
RECURSIVE PageRecords(_)
PageRecords(lg) ==
    IF lg = <<>> THEN <<>>
    ELSE (IF Head(lg).type = "page" THEN Head(lg).results ELSE <<>>)
         \o PageRecords(Tail(lg))

RECURSIVE FirstOccurrences(_, _)
FirstOccurrences(rs, k) ==
    IF k > Len(rs) THEN <<>>
    ELSE (IF \A j \in 1..(k - 1) : rs[j].link # rs[k].link THEN <<rs[k]>> ELSE <<>>)
         \o FirstOccurrences(rs, k + 1)

NameJustReturned ==
    /\ pc \in {"next", "returned"}
    /\ history # <<>>
    /\ history[Len(history)].status \in {"ok", "transport"}

C14_FirstSeenOrder ==
    (NameJustReturned /\ results_per_company >= 1) =>
        LET firsts == FirstOccurrences(PageRecords(log), 1)
            n      == Len(firsts)
            m      == IF results_per_company < n THEN results_per_company ELSE n
        IN  /\ company_results = SubSeq(firsts, 1, m)
            /\ history[Len(history)].result = company_results

\* a name returned two records over two pages; its first page held the same
\* link twice under two titles, and its second page repeated that link
C14_Witness ==
    /\ NameJustReturned /\ results_per_company >= 2
    /\ Len(company_results) = 2
    /\ \E a, b \in 1..Len(log) :
          /\ a < b
          /\ log[a].type = "page" /\ log[b].type = "page"
          /\ Len(log[a].results) = 2
          /\ log[a].results[1].link = log[a].results[2].link
          /\ log[a].results[1].title # log[a].results[2].title
          /\ \E k \in 1..Len(log[b].results) :
                log[b].results[k].link = log[a].results[1].link

\* C15: a run parameter below 1 acts as the value 1.  The k-th request of a
\* name is the one the run with the clamped parameters issues: page
\* max(start_page,1)+k-1, at most max(max_pages,1) of them, with the offset
\* and page-size parameters of the clamped results_per_company; and the list
\* returned is the accumulation cut to the clamped results_per_company.
AtLeastOne(n) == IF n < 1 THEN 1 ELSE n
RequestsAsClamped(lg) ==
    LET IsFetch(e) == e.type = "fetch"
        f == SelectSeq(lg, IsFetch)
    IN  /\ Len(f) <= AtLeastOne(max_pages)
        /\ \A k \in 1..Len(f) :
               /\ f[k].page = AtLeastOne(start_page) + k - 1
               /\ f[k].first = (f[k].page - 1) * AtLeastOne(results_per_company) + 1
               /\ f[k].count = AtLeastOne(results_per_company)
C15_ClampedParameters ==
    /\ pc = "fetching" => RequestsAsClamped(log)
    /\ \A i \in 1..Len(history) :
          /\ RequestsAsClamped(history[i].log)
          /\ history[i].status \in {"ok", "transport"} =>
                history[i].result
                    = SubSeq(history[i].acc, 1,
                             IF Len(history[i].acc) < AtLeastOne(results_per_company)
                             THEN Len(history[i].acc)
                             ELSE AtLeastOne(results_per_company))

\* C16: a name that is empty after trimming is never processed: no request
\* is issued for it and it adds nothing to the aggregate; no request and no
\* record carries an empty query; and the aggregate is what the other names
\* returned, in order, each of them searched from its first page.
IsBlank(name) == \A k \in 1..Len(name) : name[k] = " "
C16_EmptyNameSkipped ==
    /\ \A i \in 1..Len(history) :
          IF IsBlank(companies[i])
          THEN /\ history[i].status = "skipped"
               /\ history[i].log = <<>>
               /\ history[i].result = <<>>
          ELSE /\ history[i].status # "skipped"
               /\ history[i].log # <<>>
               /\ history[i].log[1].type = "fetch"
               /\ history[i].log[1].page = (IF start_page < 1 THEN 1 ELSE start_page)
               /\ ~IsBlank(history[i].log[1].company)
    /\ pc = "fetching" => ~IsBlank(company) /\ ~IsBlank(companies[idx + 1])
    /\ \A k \in 1..Len(combined_results) : combined_results[k].searchQuery # <<>>
    /\ LET Searched(h) == ~IsBlank(h.name)
       IN  combined_results = ConcatResults(SelectSeq(history, Searched))

\* the run returned: a blank name came first, and the name after it was
\* searched and contributed its records
C16_Witness ==
    /\ pc = "returned"
    /\ Len(history) = 2
    /\ IsBlank(companies[1]) /\ companies[1] # <<>>
    /\ history[2].status = "ok"
    /\ combined_results # <<>>
    /\ combined_results = history[2].result

\* the accepted target rebuilt without its query and fragment, before the
\* trailing-separator step
Rebuilt(target) ==
    urlunparse([urlparse(target) EXCEPT !.query = <<>>, !.fragment = <<>>])

\* C17 as stated: exactly one trailing separator is stripped if present, so
\* a rebuilt URL ending in several separators loses only the last one.
C17_StripsExactlyOne ==
    (nz.pc = "out" /\ nz.out # None) =>
        LET u == Rebuilt(nz.target)
        IN  nz.out = IF u # <<>> /\ u[Len(u)] = "/"
                     THEN SubSeq(u, 1, Len(u) - 1) ELSE u

\* C17 amended: every trailing separator is stripped: the output is the
\* rebuilt URL up to its last token that is not a separator, whether it
\* ended in no separator, in one, or in several.
C17_StripsEveryTrailing ==
    (nz.pc = "out" /\ nz.out # None) =>
        LET u == Rebuilt(nz.target)
        IN  \E n \in 1..Len(u) :
                /\ nz.out = SubSeq(u, 1, n)
                /\ u[n] # "/"
                /\ \A k \in (n + 1)..Len(u) : u[k] = "/"

\* an accepted target whose rebuilt URL ended in several separators
C17_Witness ==
    /\ nz.pc = "out" /\ nz.out # None
    /\ Len(Rebuilt(nz.target)) >= Len(nz.out) + 2

\* C18: every accepted link is an absolute URL of a non-empty scheme, a host
\* and a path only: it has a scheme, and no params, query or fragment.
C18_AbsoluteSchemeHostPath ==
    (nz.pc = "out" /\ nz.out # None) =>
        LET parts == urlparse(nz.out)
        IN  /\ parts.scheme # <<>>
            /\ parts.netloc # <<>>
            /\ parts.path # <<>>
            /\ parts.params = <<>>
            /\ parts.query = <<>>
            /\ parts.fragment = <<>>

\* C19: the state of a name's loop is private to it.  Every name starts with
\* an empty accumulation and an empty seen-set and with the request of its
\* own first page; and at every point of its loop and at its return the
\* accumulation is the first occurrences of the records its own pages held,
\* all of them carrying its own name, and the seen-set is their links:
\* nothing of the names before it.
C19_PerNameStatePrivate ==
    /\ [][(pc = "next" /\ pc' = "fetching")
             => /\ all_results' = <<>>
                /\ seen_links' = {}
                /\ IsTrimOf(company', companies[idx + 1])
                /\ log' = <<_build_search_url(company',
                                              IF start_page < 1 THEN 1 ELSE start_page,
                                              results_per_company)>>]_vars
    /\ []((pc = "fetching" \/ NameJustReturned) =>
             /\ all_results = FirstOccurrences(PageRecords(log), 1)
             /\ seen_links = Links(all_results)
             /\ \A k \in 1..Len(all_results) : all_results[k].searchQuery = company)

\* the aggregate holds the same link twice, once for each of two names
C19_Witness ==
    /\ pc = "returned"
    /\ \E a, b \in 1..Len(combined_results) :
          /\ a < b
          /\ combined_results[a].link = combined_results[b].link
          /\ combined_results[a].searchQuery # combined_results[b].searchQuery

\* C20: a name that is searched issues at least one and at most
\* max(max_pages,1) requests, for the pages max(start_page,1),
\* max(start_page,1)+1, ... with none skipped or repeated; every name's loop
\* ends; and the run eventually returns, every non-blank input name having
\* had its first page requested.
PagesInSequence(lg) ==
    LET rp == RequestedPages(lg)
    IN  /\ Len(rp) >= 1
        /\ Len(rp) <= (IF max_pages < 1 THEN 1 ELSE max_pages)
        /\ \A k \in 1..Len(rp) :
               rp[k] = (IF start_page < 1 THEN 1 ELSE start_page) + k - 1
C20_BoundedPagingTerminates ==
    /\ [](pc = "fetching" => PagesInSequence(log))
    /\ [](\A i \in 1..Len(history) :
             history[i].status # "skipped" => PagesInSequence(history[i].log))
    /\ [](pc = "returned" =>
             /\ Len(history) = Len(companies)
             /\ \A i \in 1..Len(companies) :
                    (\E k \in 1..Len(companies[i]) : companies[i][k] # " ")
                        => history[i].log # <<>> /\ history[i].log[1].type = "fetch")
    /\ (pc = "fetching") ~> (pc # "fetching")
    /\ <>(pc = "returned")

\* the run returned after a name went through all the pages of a sequence
\* of three, from a start page below 1
C20_Witness ==
    /\ pc = "returned"
    /\ start_page < 1 /\ max_pages = 3
    /\ \E i \in 1..Len(history) : FetchCount(history[i].log) = 3

====
